---- MODULE Spec2Model ----
(***************************************************************************)
(* Go-Back-N sender of src/GO-BACK2025/client.py (class GBNClient).        *)
(*                                                                         *)
(* Threads: the main thread (start -> send_packets -> wait_for_completion  *)
(* -> stop), the ACK listener thread (receive_acks -> handle_ack) and one  *)
(* thread per threading.Timer instance (handle_timeout).  The with-blocks  *)
(* on self.lock are modelled by the variable lock; stop() runs without     *)
(* the lock and is split into its statements.                              *)
(*                                                                         *)
(* Left out: the log lines, the statistics counters other than             *)
(* packets_lost and acks_received, and the dictionary sent_packets         *)
(* (written and pruned but never read by any decision of the protocol).    *)
(***************************************************************************)
EXTENDS Integers, Sequences, FiniteSets, TLC

\* ---------------------------------------------------------------- bounds
MaxPackets == 2
MaxWindow == 2
MaxInbox == 1
MaxAcks == 2

\* Timer instances alive at once: each one beyond the first is created after
\* an acknowledgment that advanced base (TimerPoolSuffices checks this).
Timers == 1..(MaxPackets + 2)
None == 0

VARIABLES
    window_size,    \* self.window_size
    num_packets,    \* num_packets of start() = self.stats['total_packets']
    loss,           \* seq -> what random.random() <= self.packet_loss_rate
                    \* can give at the first transmission of seq
    base,           \* self.base
    next_seq,       \* self.next_seq
    running,        \* self.running
    timer_active,   \* self.timer_active
    timer_thread,   \* self.timer_thread: None or a Timer instance
    packet_data,    \* self.packet_data: seq -> bytes
    packets_lost,   \* self.stats['packets_lost']
    socket_open,    \* self.socket is created and not yet closed
    lock,           \* holder of self.lock
    pc_main,        \* position of the main thread
    waited,         \* polls of wait_for_completion since start_time
    outcome,        \* what wait_for_completion reported
    pc_ack,         \* position of the ACK listener thread
    data,           \* the datagram recvfrom returned to the listener
    acks_received,  \* self.stats['acks_received']
    tstate,         \* state of each threading.Timer instance
    seq_num,        \* loop variable of the running handle_timeout
    retx,           \* bytes the running handle_timeout has handed to sendto
    wire,           \* data packets on the wire towards the receiver
    inbox,          \* datagrams waiting in the client's socket buffer
    expected        \* receiver: next in-order sequence number

vars == <<window_size, num_packets, loss, base, next_seq, running, timer_active,
          timer_thread, packet_data, packets_lost, socket_open, lock,
          pc_main, waited, outcome, pc_ack, data, acks_received, tstate,
          seq_num, retx, wire, inbox, expected>>

conf == <<window_size, num_packets, loss>>
win == <<base, next_seq, packet_data>>
tim == <<timer_active, timer_thread, tstate>>
hto == <<seq_num, retx>>
net == <<wire, inbox, expected>>
mainv == <<pc_main, waited, outcome>>
ackv == <<pc_ack, data, acks_received>>

\* ------------------------------------------------------------ packet codec
\* struct.pack('!I', n): four bytes, big-endian.
Pack32(n) ==
    << (n \div 16777216) % 256, (n \div 65536) % 256, (n \div 256) % 256, n % 256 >>

\* struct.unpack('!I', d)[0]
Unpack32(d) == d[1] * 16777216 + d[2] * 65536 + d[3] * 256 + d[4]

\* f"Messaggio {seq_num:03d}".encode('utf-8'), for seq_num < 1000
Payload(n) ==
    << 77, 101, 115, 115, 97, 103, 103, 105, 111, 32,
       48 + ((n \div 100) % 10), 48 + ((n \div 10) % 10), 48 + (n % 10) >>

\* packet = struct.pack('!I', seq_num) + payload.encode('utf-8')
MakePacket(n) == Pack32(n) \o Payload(n)

\* The sequence number in the header of a data packet.
SeqOf(p) == Unpack32(SubSeq(p, 1, 4))

\* ------------------------------------------------------------------ init
\* __init__, lines 21-42: the state of a client just constructed.
Constructed ==
    /\ base = 0
    /\ next_seq = 0
    /\ running = FALSE
    /\ timer_active = FALSE
    /\ timer_thread = None
    /\ packet_data = [s \in {} |-> << >>]
    /\ packets_lost = 0
    /\ socket_open = FALSE
    /\ lock = "free"
    /\ pc_main = "start"
    /\ waited = 0
    /\ outcome = "none"
    /\ pc_ack = "idle"
    /\ data = << >>
    /\ acks_received = 0
    /\ tstate = [t \in Timers |-> "unused"]
    /\ seq_num = 0
    /\ retx = << >>
    /\ wire = {}
    /\ inbox = {}
    /\ expected = 0

\* Any window size and packet count within the bounds, with a loss rate
\* strictly between 0 and 1: every first transmission may be dropped or not.
Init ==
    /\ window_size \in 1..MaxWindow
    /\ num_packets \in 0..MaxPackets
    /\ loss = [s \in 0..(MaxPackets - 1) |-> BOOLEAN]
    /\ Constructed

\* ----------------------------------------------------------------- timers
\* A Timer object that no thread runs any more can be collected; its
\* identity is free for the next threading.Timer(...).
FreeTimers(ts) == {t \in Timers : ts[t] \in {"unused", "cancelled", "finished"}}

NewTimer(ts) == CHOOSE t \in FreeTimers(ts) : \A u \in FreeTimers(ts) : t <= u

\* Timer.cancel(): sets the finished event; it stops a timer that is still
\* waiting for its interval and does nothing to one that has already woken up.
Cancel(ts, t) ==
    IF t # None /\ ts[t] = "armed" THEN [ts EXCEPT ![t] = "cancelled"] ELSE ts

\* Mutant of StartTimerGuard: the guard inverted, so no timer ever starts.
StartTimerGuardInverted == timer_active

\* start_timer, lines 145-148: the guard and the flag.
StartTimerGuard == ~timer_active

\* start_timer, lines 149-150: a new Timer instance is created and started.
StartTimerCreate(ts) ==
    /\ FreeTimers(ts) # {}
    /\ timer_thread' = NewTimer(ts)
    /\ tstate' = [ts EXCEPT ![NewTimer(ts)] = "armed"]

\* stop_timer, lines 158-160, as one step of a thread that holds the lock.
StopTimer ==
    IF timer_active /\ timer_thread # None
    THEN /\ tstate' = Cancel(tstate, timer_thread)
         /\ timer_active' = FALSE
    ELSE UNCHANGED <<tstate, timer_active>>

\* ------------------------------------------------------------ main thread
\* start(), lines 50-61: socket created, running set, listener started.
Start ==
    /\ pc_main = "start"
    /\ socket_open' = TRUE
    /\ running' = TRUE
    /\ pc_ack' = "recv"
    /\ pc_main' = "sp_outer"
    /\ UNCHANGED <<conf, win, tim, hto, net, packets_lost, lock, waited,
                   outcome, data, acks_received>>

\* send_packets, line 72: the outer loop condition, read without the lock.
SendPacketsOuter ==
    /\ pc_main = "sp_outer"
    /\ pc_main' = IF base < num_packets /\ running THEN "sp_lock" ELSE "wait"
    /\ UNCHANGED <<conf, win, tim, hto, net, packets_lost, lock, waited,
                   outcome, ackv, running, socket_open>>

\* Mutant of SendPacketsLock: the with-block is entered without waiting for
\* the lock to be free.
SendPacketsLockNoWait ==
    /\ pc_main = "sp_lock"
    /\ lock' = "main"
    /\ pc_main' = "sp_inner"
    /\ UNCHANGED <<conf, win, tim, hto, net, packets_lost, waited, outcome,
                   ackv, running, socket_open>>

\* send_packets, line 73: with self.lock.
SendPacketsLock ==
    /\ pc_main = "sp_lock"
    /\ lock = "free"
    /\ lock' = "main"
    /\ pc_main' = "sp_inner"
    /\ UNCHANGED <<conf, win, tim, hto, net, packets_lost, waited, outcome,
                   ackv, running, socket_open>>

\* Mutant of WindowOpen: the window does not slide with base.
WindowOpenNeverSlides ==
    /\ next_seq < window_size
    /\ next_seq < num_packets
    /\ running

\* Mutant of WindowOpen: the test against num_packets is left out.
WindowOpenPastLast ==
    /\ next_seq < base + window_size
    /\ running

\* Mutant of WindowOpen: the window test off by one.
WindowOpenOffByOne ==
    /\ next_seq <= base + window_size
    /\ next_seq < num_packets
    /\ running

\* send_packets, lines 74-75: the window is open for next_seq.
WindowOpen ==
    /\ next_seq < base + window_size
    /\ next_seq < num_packets
    /\ running

\* Mutant of SendPacket: a packet the loss simulation drops is not stored.
SendPacketForgetsDropped(dropped) ==
    /\ IF dropped
       THEN /\ packets_lost' = packets_lost + 1
            /\ UNCHANGED <<wire, packet_data>>
       ELSE /\ packet_data' = [s \in (DOMAIN packet_data) \cup {next_seq} |->
                                  IF s = next_seq THEN MakePacket(next_seq)
                                  ELSE packet_data[s]]
            /\ wire' = IF socket_open THEN wire \cup {MakePacket(next_seq)}
                       ELSE wire
            /\ UNCHANGED packets_lost
    /\ next_seq' = next_seq + 1

\* send_packet, lines 86-95, for seq = next_seq, then line 77.  The packet is
\* stored first; dropped says what random.random() <= packet_loss_rate gave.
SendPacket(dropped) ==
    /\ packet_data' = [s \in (DOMAIN packet_data) \cup {next_seq} |->
                          IF s = next_seq THEN MakePacket(next_seq)
                          ELSE packet_data[s]]
    /\ IF dropped
       THEN /\ packets_lost' = packets_lost + 1
            /\ UNCHANGED wire
       ELSE /\ wire' = IF socket_open THEN wire \cup {MakePacket(next_seq)}
                       ELSE wire
            /\ UNCHANGED packets_lost
    /\ next_seq' = next_seq + 1

\* send_packets, lines 74-77: one iteration of the inner loop, or its exit.
SendPacketsInner ==
    /\ pc_main = "sp_inner"
    /\ IF WindowOpen
       THEN /\ \E dropped \in loss[next_seq] : SendPacket(dropped)
            /\ UNCHANGED pc_main
       ELSE /\ pc_main' = "sp_timer"
            /\ UNCHANGED <<packet_data, packets_lost, wire, next_seq>>
    /\ UNCHANGED <<conf, base, tim, hto, inbox, expected, lock, waited,
                   outcome, ackv, running, socket_open>>

\* send_packets, lines 79-80 with start_timer lines 145-148; the lock is
\* released at the end of the with-block when no timer is to be created.
SendPacketsTimer ==
    /\ pc_main = "sp_timer"
    /\ IF ~timer_active /\ base < next_seq /\ StartTimerGuard
       THEN /\ timer_active' = TRUE
            /\ pc_main' = "sp_create"
            /\ UNCHANGED lock
       ELSE /\ pc_main' = "sp_outer"
            /\ lock' = "free"
            /\ UNCHANGED timer_active
    /\ UNCHANGED <<conf, win, timer_thread, tstate, hto, net, packets_lost,
                   waited, outcome, ackv, running, socket_open>>

\* start_timer lines 149-150 called from send_packets; end of the with-block.
SendPacketsCreate ==
    /\ pc_main = "sp_create"
    /\ StartTimerCreate(tstate)
    /\ lock' = "free"
    /\ pc_main' = "sp_outer"
    /\ UNCHANGED <<conf, win, timer_active, hto, net, packets_lost, waited,
                   outcome, ackv, running, socket_open>>

\* wait_for_completion, line 191, in polls of the loop (time.sleep(0.1)).
MaxWaitPolls == 2

\* wait_for_completion, lines 193-198: one poll of the loop, or its exit.
WaitForCompletion ==
    /\ pc_main = "wait"
    /\ IF base < num_packets /\ running
       THEN /\ waited' = waited + 1
            /\ pc_main' = IF waited + 1 > MaxWaitPolls THEN "report" ELSE "wait"
       ELSE /\ pc_main' = "report"
            /\ UNCHANGED waited
    /\ UNCHANGED <<conf, win, tim, hto, net, packets_lost, lock, ackv,
                   running, socket_open, outcome>>

\* wait_for_completion, lines 200-203: all confirmed, or completed partially.
WaitReport ==
    /\ pc_main = "report"
    /\ outcome' = IF base >= num_packets THEN "DONE" ELSE "PARTIAL"
    /\ pc_main' = "stop"
    /\ UNCHANGED <<conf, win, tim, hto, net, packets_lost, lock, ackv,
                   running, socket_open, waited>>

\* stop, line 206.
StopRunning ==
    /\ pc_main = "stop"
    /\ running' = FALSE
    /\ pc_main' = "stop_check"
    /\ UNCHANGED <<conf, win, tim, hto, net, packets_lost, lock, waited,
                   outcome, ackv, socket_open>>

\* stop_timer called from stop, line 158: the condition, read without the lock.
StopCheck ==
    /\ pc_main = "stop_check"
    /\ pc_main' = IF timer_active /\ timer_thread # None THEN "stop_cancel"
                  ELSE "stop_close"
    /\ UNCHANGED <<conf, win, tim, hto, net, packets_lost, lock, waited,
                   outcome, ackv, running, socket_open>>

\* stop_timer called from stop, line 159: self.timer_thread is read again.
StopCancel ==
    /\ pc_main = "stop_cancel"
    /\ tstate' = Cancel(tstate, timer_thread)
    /\ pc_main' = "stop_clear"
    /\ UNCHANGED <<conf, win, timer_active, timer_thread, hto, net,
                   packets_lost, lock, waited, outcome, ackv, running,
                   socket_open>>

\* stop_timer called from stop, line 160.
StopClear ==
    /\ pc_main = "stop_clear"
    /\ timer_active' = FALSE
    /\ pc_main' = "stop_close"
    /\ UNCHANGED <<conf, win, timer_thread, tstate, hto, net, packets_lost,
                   lock, waited, outcome, ackv, running, socket_open>>

\* stop, lines 209-212: the socket is closed, the statistics printed.
StopClose ==
    /\ pc_main = "stop_close"
    /\ socket_open' = FALSE
    /\ pc_main' = "done"
    /\ UNCHANGED <<conf, win, tim, hto, net, packets_lost, lock, waited,
                   outcome, ackv, running>>

\* ----------------------------------------------------------- ACK listener
\* receive_acks, line 106: the loop ends once running is cleared (a recvfrom
\* that times out, or raises on the closed socket, comes back to this test).
ReceiveAcksExit ==
    /\ pc_ack = "recv"
    /\ ~running
    /\ pc_ack' = "exit"
    /\ UNCHANGED <<conf, win, tim, hto, net, packets_lost, lock, mainv, data,
                   acks_received, running, socket_open>>

\* Mutant of WellFormed: shorter datagrams pass the length test too.
WellFormedAtMost(d) == Len(d) <= 4

\* receive_acks, line 110: an acknowledgment is exactly four bytes long.
WellFormed(d) == Len(d) = 4

\* receive_acks, lines 106-112: recvfrom returns the datagram d into data;
\* one of 4 bytes goes to handle_ack, one of another length is dropped and
\* the loop goes round.
ReceiveAcks(d) ==
    /\ pc_ack = "recv"
    /\ running
    /\ socket_open
    /\ data' = d
    /\ pc_ack' = IF WellFormed(d) THEN "handle_ack" ELSE "recv"
    /\ UNCHANGED <<conf, win, tim, hto, wire, expected, packets_lost, lock,
                   mainv, acks_received, running, socket_open>>

\* Mutant of AckAdvances: every acknowledgment moves base.
AckAdvancesAlways(ack_num) == TRUE

\* Mutant of AckAdvances: the acknowledgment just below base is taken again.
AckAdvancesOffByOne(ack_num) == ack_num >= base - 1

\* handle_ack, line 125.
AckAdvances(ack_num) == ack_num >= base

\* Mutant of Acknowledged: an acknowledgment empties the whole store.
AcknowledgedWholeStore(ack_num) == DOMAIN packet_data

\* handle_ack, lines 135-137.
Acknowledged(ack_num) == {s \in DOMAIN packet_data : s <= ack_num}

\* handle_ack, lines 121-137, with ack_num = struct.unpack('!I', data)[0]
\* (line 111).  Every acknowledgment is counted (line 123); a stale one
\* leaves the with-block at once.
HandleAck ==
    /\ pc_ack = "handle_ack"
    /\ lock = "free"
    /\ acks_received' = acks_received + 1
    /\ LET ack_num == Unpack32(data) IN
        IF AckAdvances(ack_num)
        THEN /\ base' = ack_num + 1
             /\ packet_data' = [s \in DOMAIN packet_data \ Acknowledged(ack_num)
                                   |-> packet_data[s]]
             /\ lock' = "ack"
             /\ pc_ack' = "ack_timer"
             /\ UNCHANGED data
        ELSE /\ pc_ack' = "recv"
             /\ data' = << >>
             /\ UNCHANGED <<base, packet_data, lock>>
    /\ UNCHANGED <<conf, next_seq, tim, hto, net, packets_lost, mainv,
                   running, socket_open>>

\* handle_ack, lines 139-142: stop_timer in both branches (restart_timer
\* line 154, or line 142), then start_timer's guard when packets remain.
HandleAckTimer ==
    /\ pc_ack = "ack_timer"
    /\ StopTimer
    /\ IF base < next_seq
       THEN /\ pc_ack' = "ack_start"
            /\ UNCHANGED <<lock, data>>
       ELSE /\ pc_ack' = "recv"
            /\ lock' = "free"
            /\ data' = << >>
    /\ UNCHANGED <<conf, win, timer_thread, hto, net, packets_lost, mainv,
                   acks_received, running, socket_open>>

\* restart_timer line 155 -> start_timer lines 145-148.
HandleAckStart ==
    /\ pc_ack = "ack_start"
    /\ IF StartTimerGuard
       THEN /\ timer_active' = TRUE
            /\ pc_ack' = "ack_create"
            /\ UNCHANGED <<lock, data>>
       ELSE /\ pc_ack' = "recv"
            /\ lock' = "free"
            /\ data' = << >>
            /\ UNCHANGED timer_active
    /\ UNCHANGED <<conf, win, timer_thread, tstate, hto, net, packets_lost,
                   mainv, acks_received, running, socket_open>>

\* start_timer lines 149-150 called from handle_ack; end of the with-block.
HandleAckCreate ==
    /\ pc_ack = "ack_create"
    /\ StartTimerCreate(tstate)
    /\ lock' = "free"
    /\ pc_ack' = "recv"
    /\ data' = << >>
    /\ UNCHANGED <<conf, win, timer_active, hto, net, packets_lost, mainv,
                   acks_received, running, socket_open>>

\* ------------------------------------------------------- timer threads
\* threading.Timer.run: the interval elapsed before cancel() was called; the
\* thread goes on to call handle_timeout and cancel() no longer stops it.
TimerExpire(t) ==
    /\ tstate[t] = "armed"
    /\ tstate' = [tstate EXCEPT ![t] = "expired"]
    /\ UNCHANGED <<conf, win, timer_active, timer_thread, hto, net,
                   packets_lost, lock, mainv, ackv, running, socket_open>>

\* Mutant of RetransmitFirst: the oldest outstanding packet is skipped.
RetransmitFirstSkipsOldest == base + 1

\* handle_timeout, line 171: range(self.base, self.next_seq) starts here.
RetransmitFirst == base

\* handle_timeout, lines 164-171: the lock, the running check, the range.
HandleTimeout(t) ==
    /\ tstate[t] = "expired"
    /\ lock = "free"
    /\ IF ~running
       THEN /\ tstate' = [tstate EXCEPT ![t] = "finished"]
            /\ UNCHANGED <<lock, seq_num>>
       ELSE /\ tstate' = [tstate EXCEPT ![t] = "retransmit"]
            /\ lock' = "timer"
            /\ seq_num' = RetransmitFirst
    /\ UNCHANGED <<conf, win, timer_active, timer_thread, retx, net,
                   packets_lost, mainv, ackv, running, socket_open>>

\* handle_timeout, line 174: the bytes handed to sendto for seq_num.
RetransmitBytes(s) == packet_data[s]

\* handle_timeout, lines 171-183: one iteration of the for loop, or its end.
\* sendto on the socket that stop() closed raises; the except clause logs it.
HandleTimeoutLoop(t) ==
    /\ tstate[t] = "retransmit"
    /\ IF seq_num < next_seq
       THEN /\ IF seq_num \in DOMAIN packet_data /\ socket_open
               THEN /\ wire' = wire \cup {RetransmitBytes(seq_num)}
                    /\ retx' = Append(retx, RetransmitBytes(seq_num))
               ELSE UNCHANGED <<wire, retx>>
            /\ seq_num' = seq_num + 1
            /\ UNCHANGED tstate
       ELSE /\ tstate' = [tstate EXCEPT ![t] = "restart"]
            /\ UNCHANGED <<wire, retx, seq_num>>
    /\ UNCHANGED <<conf, win, timer_active, timer_thread, inbox, expected,
                   packets_lost, lock, mainv, ackv, running, socket_open>>

\* handle_timeout, lines 184-185 -> start_timer lines 145-148: the flag is
\* cleared and, the guard of start_timer passing on the cleared flag, set.
HandleTimeoutRestart(t) ==
    /\ tstate[t] = "restart"
    /\ timer_active' = TRUE
    /\ tstate' = [tstate EXCEPT ![t] = "create"]
    /\ UNCHANGED <<conf, win, timer_thread, hto, net, packets_lost, lock,
                   mainv, ackv, running, socket_open>>

\* start_timer lines 149-150 called from handle_timeout; end of the
\* with-block, and the timer thread that ran the handler ends.
HandleTimeoutCreate(t) ==
    /\ tstate[t] = "create"
    /\ StartTimerCreate([tstate EXCEPT ![t] = "finished"])
    /\ lock' = "free"
    /\ seq_num' = 0
    /\ retx' = << >>
    /\ UNCHANGED <<conf, win, timer_active, net, packets_lost, mainv, ackv,
                   running, socket_open>>

\* ---------------------------------------------------------------- network
\* The receiver of the collaborator contract: it accepts the packet it
\* expects and answers every packet with the cumulative acknowledgment of the
\* highest in-order sequence number received so far.
ReceiverAck(seq) ==
    IF seq = expected THEN {Pack32(seq)}
    ELSE IF expected > 0 THEN {Pack32(expected - 1)}
    ELSE {}

InboxRoom(ds) == ds \subseteq inbox \/ Cardinality(inbox \cup ds) <= MaxInbox

ReceiverRecv(p) ==
    LET seq == Unpack32(SubSeq(p, 1, 4)) IN
    /\ p \in wire
    /\ InboxRoom(ReceiverAck(seq))
    /\ wire' = wire \ {p}
    /\ expected' = IF seq = expected THEN expected + 1 ELSE expected
    /\ inbox' = inbox \cup ReceiverAck(seq)
    /\ UNCHANGED <<conf, win, tim, hto, packets_lost, lock, mainv, ackv,
                   running, socket_open>>

\* The channel loses a packet that is on the wire.
NetLose(p) ==
    /\ p \in wire
    /\ wire' = wire \ {p}
    /\ UNCHANGED <<conf, win, tim, hto, inbox, expected, packets_lost, lock,
                   mainv, ackv, running, socket_open>>

\* Every data packet a session can build.
Packets == {MakePacket(n) : n \in 0..(MaxPackets - 1)}

\* The listener's recvfrom returns an acknowledgment of the receiver.
RecvFromReceiver ==
    \E d \in inbox :
        /\ ReceiveAcks(d)
        /\ inbox' = inbox \ {d}

\* Datagrams a network can hand to the client's socket: any 4-byte value
\* (here up to one beyond the last sequence number), and other lengths.
Datagrams == {Pack32(v) : v \in 0..MaxPackets} \cup {<<0, 0, 1>>}

\* The listener's recvfrom returns an arbitrary datagram; this network
\* stops sending acknowledgments once MaxAcks of them have been counted.
RecvFromNetwork ==
    \E d \in Datagrams :
        /\ Len(d) = 4 => acks_received < MaxAcks
        /\ ReceiveAcks(d)
        /\ UNCHANGED inbox

\* ------------------------------------------------------------------ specs
MainStep ==
    \/ Start
    \/ SendPacketsOuter
    \/ SendPacketsLock
    \/ SendPacketsInner
    \/ SendPacketsTimer
    \/ SendPacketsCreate
    \/ WaitForCompletion
    \/ WaitReport
    \/ StopRunning
    \/ StopCheck
    \/ StopCancel
    \/ StopClear
    \/ StopClose

AckStep ==
    \/ ReceiveAcksExit
    \/ HandleAck
    \/ HandleAckTimer
    \/ HandleAckStart
    \/ HandleAckCreate

TimerStep(t) ==
    \/ TimerExpire(t)
    \/ HandleTimeout(t)
    \/ HandleTimeoutLoop(t)
    \/ HandleTimeoutRestart(t)
    \/ HandleTimeoutCreate(t)

Program == MainStep \/ AckStep \/ \E t \in Timers : TimerStep(t)

\* The client on a network that hands arbitrary datagrams to its socket.
Next == Program \/ RecvFromNetwork

Spec == Init /\ [][Next]_vars

\* The threads of the client are scheduled fairly: a thread that can run does
\* run, and a thread waiting for the lock gets it when it is released again
\* and again (the main thread sleeps 0.1 s between its with-blocks).  Nothing
\* is assumed of the network: no datagram need ever arrive.
ThreadFairness ==
    /\ WF_vars(MainStep)
    /\ SF_vars(SendPacketsLock)
    /\ WF_vars(AckStep)
    /\ SF_vars(HandleAck)
    /\ \A t \in Timers : WF_vars(TimerStep(t)) /\ SF_vars(HandleTimeout(t))

FairSpec == Spec /\ ThreadFairness

\* The client with the receiver of the collaborator contract.
LiveNext ==
    \/ Program
    \/ \E p \in Packets : ReceiverRecv(p)
    \/ \E p \in Packets : NetLose(p)
    \/ RecvFromReceiver

\* The channel is fair: a packet that is on the wire again and again reaches
\* the receiver, and an acknowledgment in the socket buffer reaches the
\* listener while it runs.
ChannelFairness ==
    /\ \A p \in Packets : SF_vars(ReceiverRecv(p))
    /\ SF_vars(RecvFromReceiver)

SafeLiveSpec == Init /\ [][LiveNext]_vars

LiveSpec == SafeLiveSpec /\ ThreadFairness /\ ChannelFairness

\* -------------------------------------------------------------- scenarios
\* main(), lines 238 and 241.
WINDOW_SIZE == 4
NUM_PACKETS == 15

\* The loss simulation drops nothing.
NoLoss == [s \in 0..(NUM_PACKETS - 1) |-> {FALSE}]

\* The loss simulation drops the first transmission of packet 2 and no other.
LossOfPacket2 == [NoLoss EXCEPT ![2] = {TRUE}]

\* A session of main()'s window size, of main()'s 15 packets or of a single
\* window, with one of the two loss patterns fixed in advance.
ScenarioInit ==
    /\ window_size = WINDOW_SIZE
    /\ num_packets \in {WINDOW_SIZE, NUM_PACKETS}
    /\ loss \in {NoLoss, LossOfPacket2}
    /\ Constructed

\* The channel delivers in order: the oldest packet on the wire first.
InOrderRecv(p) ==
    /\ \A q \in wire : SeqOf(p) <= SeqOf(q)
    /\ ReceiverRecv(p)

\* The acknowledgments come back in order: recvfrom returns the oldest one
\* in the socket buffer (the receiver's acknowledgments never decrease).
InOrderAck ==
    \E d \in inbox :
        /\ \A e \in inbox : Unpack32(d) <= Unpack32(e)
        /\ ReceiveAcks(d)
        /\ inbox' = inbox \ {d}

\* Nothing is in flight and the main thread has nothing to send: the wire
\* and the socket buffer are empty, the listener waits in recvfrom, no
\* thread holds the lock and the window is full or the session over.
Quiet ==
    /\ wire = {}
    /\ inbox = {}
    /\ pc_ack \in {"recv", "exit"}
    /\ lock = "free"
    /\ pc_main \in {"sp_outer", "sp_lock"} => ~WindowOpen

\* The interval of main()'s timers, TIMEOUT = 2.0 s (line 239), is long
\* against the 0.1 s sleep of send_packets (line 82) and against a round
\* trip to the receiver: a timer wakes only when all is quiet.
QuietExpire(t) ==
    /\ Quiet
    /\ TimerExpire(t)

ScenarioTimerStep(t) ==
    \/ QuietExpire(t)
    \/ HandleTimeout(t)
    \/ HandleTimeoutLoop(t)
    \/ HandleTimeoutRestart(t)
    \/ HandleTimeoutCreate(t)

ScenarioNext ==
    \/ MainStep
    \/ AckStep
    \/ \E t \in Timers : ScenarioTimerStep(t)
    \/ \E p \in wire : InOrderRecv(p)
    \/ InOrderAck

\* The threads are scheduled fairly, as in ThreadFairness (some timer
\* thread that can run does; in the scenarios one timer is alive at a time);
\* a timer whose interval can elapse again and again does wake; the channel
\* delivers.
ScenarioFairness ==
    /\ WF_vars(MainStep)
    /\ SF_vars(SendPacketsLock)
    /\ WF_vars(AckStep)
    /\ SF_vars(HandleAck)
    /\ WF_vars(\E t \in Timers : ScenarioTimerStep(t))
    /\ SF_vars(\E t \in Timers : QuietExpire(t))
    /\ SF_vars(\E t \in Timers : HandleTimeout(t))
    /\ WF_vars(\E p \in wire : InOrderRecv(p))
    /\ SF_vars(InOrderAck)

SafeScenarioSpec == ScenarioInit /\ [][ScenarioNext]_vars

ScenarioSpec == SafeScenarioSpec /\ ScenarioFairness

\* Every threading.Timer(...) finds a free instance in the pool.
TimerPoolSuffices ==
    /\ pc_main = "sp_create" => FreeTimers(tstate) # {}
    /\ pc_ack = "ack_create" => FreeTimers(tstate) # {}

\* ----------------------------------------------------------------- claims

\* C1 (window bound): in every reachable state, for every window size and
\* packet count of Init and every acknowledgment value, the number of
\* sequence numbers handed out beyond base is at most window_size.
WindowBound == next_seq - base <= window_size

\* The window is full again after an acknowledgment has moved base.
WindowFullAfterAck ==
    /\ base > 0
    /\ next_seq - base = window_size
    /\ lock = "free"

\* C2: base never passes next_seq, whatever acknowledgment value arrives.
BaseNeverPastNextSeq == base <= next_seq

\* C3 (store consistency): whenever the lock is free, the keys of
\* packet_data are exactly base .. next_seq-1.
StoreConsistency == lock = "free" => DOMAIN packet_data = base..(next_seq - 1)

\* C4 (timer singularity): at most one Timer instance is armed (started,
\* neither cancelled nor expired) at any instant.
ArmedTimers == {t \in Timers : tstate[t] = "armed"}

TimerSingularity == Cardinality(ArmedTimers) <= 1

\* C5 (timer/window coupling): in a running session with the lock free,
\* timer_active holds exactly when base < next_seq.
TimerWindowCoupling ==
    (running /\ lock = "free") => (timer_active <=> base < next_seq)

\* C6 (cumulative-ack monotonicity): no step decreases base.
BaseMonotone == [][base' >= base]_vars

\* The listener is about to handle an acknowledgment older than base.
StaleAckPending ==
    /\ pc_ack = "handle_ack"
    /\ Unpack32(data) < base
    /\ lock = "free"

\* C7: handle_ack of an acknowledgment below base returns at once and leaves
\* base, next_seq, the pending store and the timer (flag, current instance,
\* every instance's state) as they were; so the second of two equal
\* acknowledgments in a row, which finds base one above it, changes nothing.
StaleAckIsNoOp ==
    [][(pc_ack = "handle_ack" /\ pc_ack' # "handle_ack" /\ Unpack32(data) < base)
         => (/\ pc_ack' = "recv"
             /\ lock' = lock
             /\ UNCHANGED <<base, next_seq, packet_data, timer_active,
                            timer_thread, tstate>>)]_vars

\* The same acknowledgment is delivered again right after it moved base,
\* with packets outstanding and the timer running.
DuplicateAckPending ==
    /\ pc_ack = "handle_ack"
    /\ Unpack32(data) + 1 = base
    /\ base < next_seq
    /\ timer_active
    /\ lock = "free"

\* The bytes of lo .. hi-1 as send_packet built them, in increasing order.
OriginalBytes(lo, hi) == [i \in 1..(hi - lo) |-> MakePacket(lo + i - 1)]

\* C8 (retransmission completeness): in a running session handle_timeout
\* has handed to sendto, so far, the original bytes of base .. seq_num-1 in
\* increasing order, each once, and at the end of its loop those of all of
\* base .. next_seq-1 and nothing else.
RetransmissionComplete ==
    \A t \in Timers :
        /\ (tstate[t] = "retransmit" /\ running) =>
              /\ base <= seq_num
              /\ seq_num <= next_seq \/ seq_num = base
              /\ retx = OriginalBytes(base, seq_num)
        /\ (tstate[t] \in {"restart", "create"} /\ running) =>
              retx = OriginalBytes(base, next_seq)

\* A timeout handler has finished its loop over a window of two packets.
RetransmittedWindow ==
    \E t \in Timers :
        /\ tstate[t] = "restart"
        /\ running
        /\ Len(retx) >= 2

\* C9 (session termination): every session ends, the main thread returning
\* from start() after reporting DONE or PARTIAL.
SessionTerminates == <>(pc_main = "done" /\ outcome \in {"DONE", "PARTIAL"})

\* C10 (liveness under loss): with the receiver and a fair channel, every
\* session reaches base = num_packets.
EventuallyAllAcked == <>(base = num_packets)

\* All packets are acknowledged in a session whose first transmissions were
\* all dropped by the loss simulation.
AllAckedAfterLoss ==
    /\ base = num_packets
    /\ num_packets = MaxPackets
    /\ packets_lost = num_packets

\* C11 (no network I/O under the lock): no thread holds the lock in the step
\* in which it calls sendto or recvfrom returns to it: the main thread when
\* send_packet puts a packet on the wire, a timer thread when handle_timeout
\* retransmits one, the listener when it takes a datagram from the socket.
NoIoUnderLock ==
    [][/\ (pc_main = "sp_inner" /\ wire' # wire) => lock # "main"
       /\ (Len(retx') > Len(retx)) => lock # "timer"
       /\ (pc_ack = "recv" /\ data' # data) => lock # "ack"]_vars

\* The threads that are inside the with self.lock block of send_packets, of
\* handle_ack and of handle_timeout.
InCriticalSection ==
    (IF pc_main \in {"sp_inner", "sp_timer", "sp_create"} THEN {"main"} ELSE {})
    \cup (IF pc_ack \in {"ack_timer", "ack_start", "ack_create"}
          THEN {"ack"} ELSE {})
    \cup {t \in Timers : tstate[t] \in {"retransmit", "restart", "create"}}

\* C12 (mutual exclusion of window mutations): at most one thread is inside
\* the body of send_packets' window step, handle_ack or handle_timeout at a
\* time, and every step that writes base, next_seq or packet_data is taken by
\* the thread holding the lock: base by handle_ack, next_seq by send_packets,
\* packet_data by either.
WindowMutex ==
    /\ [](Cardinality(InCriticalSection) <= 1)
    /\ [][/\ base' # base => lock' = "ack"
          /\ next_seq' # next_seq => (lock = "main" /\ lock' = "main")
          /\ packet_data' # packet_data =>
                \/ lock = "main" /\ lock' = "main"
                \/ lock' = "ack"]_vars

\* A timer thread is inside handle_timeout while the main thread and the
\* listener, an acknowledgment in hand, both wait for the lock.
TwoWaitForLock ==
    /\ \E t \in Timers : tstate[t] = "retransmit"
    /\ pc_main = "sp_lock"
    /\ pc_ack = "handle_ack"

\* C13 (clean shutdown): once stop() has returned, no Timer instance is
\* armed, so none can fire afterwards.
NoTimerAfterStop ==
    pc_main = "done" => \A t \in Timers : tstate[t] # "armed"

\* C14 (no send beyond the last packet): next_seq never exceeds num_packets,
\* and every packet handed to sendto, as first transmission (all of them are
\* in wire, from which this network removes nothing) or as retransmission
\* (retx), carries a sequence number below num_packets.
NoSendBeyondLast ==
    /\ next_seq <= num_packets
    /\ \A p \in wire : SeqOf(p) < num_packets
    /\ \A i \in 1..Len(retx) : SeqOf(retx[i]) < num_packets

\* The last packet of the largest session has been sent and is being
\* retransmitted with the whole window.
LastPacketRetransmitted ==
    /\ num_packets = MaxPackets
    /\ next_seq = num_packets
    /\ MakePacket(num_packets - 1) \in wire
    /\ Len(retx) = MaxPackets
    /\ SeqOf(retx[Len(retx)]) = num_packets - 1

\* The Timer instances that can still call handle_timeout: started and not
\* cancelled, whether still waiting for the interval or already woken.
PendingTimers == {t \in Timers : tstate[t] \in {"armed", "expired"}}

\* C15 (effect of a fresh acknowledgment): handle_ack of a = Unpack32(data)
\* with a >= base sets base to a + 1, removes from packet_data exactly the
\* keys <= a and keeps the bytes of the others, and leaves next_seq alone;
\* nothing else in its body touches the three; and when it returns, with
\* base < next_seq the timer is active and the one pending Timer instance is
\* the one this call started, otherwise the timer is inactive and no
\* instance is pending.
FreshAckEffect ==
    [][/\ (pc_ack = "handle_ack" /\ pc_ack' # "handle_ack"
              /\ Unpack32(data) >= base) =>
            /\ pc_ack' = "ack_timer"
            /\ base' = Unpack32(data) + 1
            /\ DOMAIN packet_data' =
                  {s \in DOMAIN packet_data : s > Unpack32(data)}
            /\ \A s \in DOMAIN packet_data' : packet_data'[s] = packet_data[s]
            /\ next_seq' = next_seq
       /\ pc_ack \in {"ack_timer", "ack_start", "ack_create"} =>
            UNCHANGED <<base, next_seq, packet_data>>
       /\ (pc_ack \in {"ack_timer", "ack_start", "ack_create"}
              /\ pc_ack' = "recv") =>
            IF base < next_seq
            THEN /\ timer_active'
                 /\ pc_ack = "ack_create"
                 /\ tstate[timer_thread'] # "armed"
                 /\ PendingTimers' = {timer_thread'}
            ELSE /\ ~timer_active'
                 /\ PendingTimers' = {}
      ]_vars

\* C16 (malformed acknowledgments change nothing): the step in which the
\* running listener's recvfrom returns a datagram that is not 4 bytes long
\* leaves the listener in its loop, and base, next_seq, packet_data, the
\* timer (flag, current instance, every instance's state), the lock and
\* acks_received as they were; and handle_ack is only ever entered with a
\* datagram of 4 bytes.
MalformedAckIgnored ==
    /\ [](pc_ack = "handle_ack" => Len(data) = 4)
    /\ [][(pc_ack = "recv" /\ data' # data /\ Len(data') # 4) =>
            /\ pc_ack' = "recv"
            /\ UNCHANGED <<base, next_seq, packet_data, timer_active,
                           timer_thread, tstate, acks_received, lock,
                           running>>]_vars

\* The listener has dropped a datagram of 3 bytes and is back at recvfrom,
\* in a session with a packet outstanding, its timer running and an
\* acknowledgment already counted.
MalformedAckDropped ==
    /\ pc_ack = "recv"
    /\ Len(data) = 3
    /\ running
    /\ base < next_seq
    /\ timer_active
    /\ acks_received > 0

\* The end of the window that starts at b, in this session.
WindowEnd(b) ==
    IF b + window_size < num_packets THEN b + window_size ELSE num_packets

\* C17 as stated (Scenario B): with only the first transmission of packet 2
\* dropped, the packets a timeout has retransmitted are exactly 2 and 3.
RetransmitsTwoAndThree ==
    loss = LossOfPacket2 =>
        \A t \in Timers :
            tstate[t] = "restart" => retx = <<MakePacket(2), MakePacket(3)>>

\* C17 amended (Scenario B): with only the first transmission of packet 2
\* dropped, a timeout is handled; it finds base = 2 and the window filled up
\* to its end and retransmits exactly that outstanding window, in order
\* (2, 3, 4, 5 in a session of 15 packets; 2 and 3 alone only in a session
\* of 4); and the session reaches base = num_packets.
RetransmitsOutstandingWindow ==
    /\ [](loss = LossOfPacket2 =>
            \A t \in Timers :
                tstate[t] = "restart" =>
                    /\ base = 2
                    /\ next_seq = WindowEnd(base)
                    /\ retx = OriginalBytes(base, next_seq))
    /\ <>(loss = LossOfPacket2 => \E t \in Timers : tstate[t] = "restart")
    /\ <>(loss = LossOfPacket2 => base = num_packets)

\* In the session of 15 packets with packet 2 dropped, a timeout has
\* retransmitted four packets.
TimeoutRetransmittedFour ==
    /\ loss = LossOfPacket2
    /\ num_packets = NUM_PACKETS
    /\ \E t \in Timers : tstate[t] = "restart"
    /\ Len(retx) = 4

\* C18 (Scenario A): without loss, packets 0-3 are sent before any
\* acknowledgment is counted; every acknowledgment counted moves base by
\* one; next_seq never exceeds the acknowledgments counted plus the window,
\* and when the main thread has filled the window it equals that (up to
\* num_packets): one send per acknowledgment; each send is of next_seq, so
\* in increasing order; no timer wakes and nothing is retransmitted; and
\* base reaches num_packets (15 in main()'s session).
PacedByAcks ==
    /\ [](loss = NoLoss =>
            /\ acks_received > 0 => next_seq >= WINDOW_SIZE
            /\ base = acks_received
            /\ next_seq <= acks_received + WINDOW_SIZE
            /\ pc_main = "sp_timer" => next_seq = WindowEnd(acks_received)
            /\ retx = << >>
            /\ \A t \in Timers : tstate[t] \in {"unused", "armed", "cancelled"})
    /\ [][loss = NoLoss =>
            \A p \in wire' \ wire :
                p = MakePacket(next_seq) /\ next_seq' = next_seq + 1]_vars
    /\ <>(loss = NoLoss => base = num_packets)

\* The session of 15 packets without loss is over: 15 acknowledgments were
\* counted and stop() has returned.
ScenarioADone ==
    /\ loss = NoLoss
    /\ num_packets = NUM_PACKETS
    /\ base = NUM_PACKETS
    /\ acks_received = NUM_PACKETS
    /\ pc_main = "done"

\* C19 (a timeout is handled only with packets outstanding): while a timer
\* thread is in the body of handle_timeout in a running session, holding
\* the lock, base < next_seq.
TimeoutOnlyWithOutstanding ==
    \A t \in Timers :
        (tstate[t] \in {"retransmit", "restart", "create"} /\ running
            /\ lock = "timer") => base < next_seq

\* C20 (simulated loss is recoverable): the step in which the loss
\* simulation drops a first transmission (packets_lost grows) puts nothing
\* on the wire but stores the packet's bytes under its sequence number and
\* counts it in next_seq; a key leaves packet_data only in a handle_ack of
\* an acknowledgment >= that key; and a handle_timeout that has finished its
\* loop has put every unacknowledged packet, base .. next_seq-1, dropped
\* before or not, on the wire.
LossIsRecoverable ==
    /\ [][/\ packets_lost' # packets_lost =>
                /\ packets_lost' = packets_lost + 1
                /\ wire' = wire
                /\ next_seq' = next_seq + 1
                /\ DOMAIN packet_data' = DOMAIN packet_data \cup {next_seq}
                /\ packet_data'[next_seq] = MakePacket(next_seq)
          /\ \A s \in DOMAIN packet_data :
                s \notin DOMAIN packet_data' =>
                    /\ pc_ack = "handle_ack"
                    /\ pc_ack' = "ack_timer"
                    /\ Unpack32(data) >= s]_vars
    /\ [](\A t \in Timers :
            tstate[t] = "restart" =>
                \A s \in base..(next_seq - 1) :
                    /\ s \in DOMAIN packet_data
                    /\ packet_data[s] = MakePacket(s)
                    /\ packet_data[s] \in wire
                    /\ \E i \in 1..Len(retx) : retx[i] = packet_data[s])

\* Both first transmissions were dropped, so nothing was on the wire, and a
\* timeout has now put both packets there.
DroppedThenRetransmitted ==
    /\ \E t \in Timers : tstate[t] = "restart"
    /\ running
    /\ base = 0
    /\ next_seq = MaxPackets
    /\ packets_lost = MaxPackets
    /\ \A s \in 0..(MaxPackets - 1) : MakePacket(s) \in wire

====
